---- MODULE Spec2Model ----
(***************************************************************************)
(* A model of assets/gen_icon.py, the Kova icon generator.                 *)
(*                                                                         *)
(*   Spec          the script's main block and make_icns: the preview is   *)
(*                 saved, the iconset directory is rebuilt, iconutil is    *)
(*                 run, the directory is removed.  The script may be run   *)
(*                 again on the same output directory.                     *)
(*   SpecFont      the font probing loop of draw_icon.                     *)
(*   SpecGradient  gradient_bg on small sizes and colours, with Python's   *)
(*                 float arithmetic (IEEE binary64) carried out bit by bit.*)
(*   SpecMask      rounded_rect_mask and the final paste of draw_icon,     *)
(*                 observed one pixel at a time.                           *)
(***************************************************************************)
EXTENDS Integers, Sequences, FiniteSets, TLC

VARIABLES
    \* ---- the script's main block and make_icns
    pc,           \* position in the script
    icon,         \* the image draw_icon returned (None before)
    outFiles,     \* files of the output directory other than the iconset
    iconset,      \* the directory out_dir/kova.iconset
    si,           \* index into sizes of the loop of make_icns
    toolCalls,    \* invocations of iconutil in the current run
    exitStatus,   \* the status iconutil exited with in the current run
    stdout,       \* what the current run printed
    returned,     \* what make_icns returned in the current run
    raised,       \* the exception that ended the current run
    runs,         \* the number of the current run of the script
    prevOutcome,  \* how the previous run ended
    \* ---- font probing in draw_icon
    fpc, ni, bi, font, probed, fraised,
    \* ---- gradient_bg
    gpc, gsize, gtop, gbot, gy, gimg,
    \* ---- rounded_rect_mask and paste
    mpc, mpix, msrc, mask, result

pkVars == <<pc, icon, outFiles, iconset, si, toolCalls, exitStatus, stdout,
            returned,
            raised, runs, prevOutcome>>
fontVars == <<fpc, ni, bi, font, probed, fraised>>
gradVars == <<gpc, gsize, gtop, gbot, gy, gimg>>
maskVars == <<mpc, mpix, msrc, mask, result>>
vars == <<pkVars, fontVars, gradVars, maskVars>>

None == "None"
NoPath == <<>>        \* make_icns has returned nothing
NoStatus == <<>>      \* iconutil has not exited
NoImage == [mode |-> "None", size |-> <<0, 0>>]

(***************************************************************************)
(* Program constants.                                                      *)
(***************************************************************************)
SIZE == 1024
CORNER_R == 220
BG_TOP == <<30, 30, 38>>
BG_BOT == <<18, 18, 24>>

(***************************************************************************)
(* Bounds of the model.                                                    *)
(***************************************************************************)
MaxRuns == 3

(***************************************************************************)
(* Paths and the file system.  A path is the sequence of its components;   *)
(* a directory is absent, or exists and holds a set of files.  A file      *)
(* carries its name, its pixel dimensions and the run that wrote it.       *)
(***************************************************************************)
Join(dir, name) == Append(dir, name)

OutDir == <<"assets">>

\* line 112: icns_path.  (Variant: the iconset's path is taken instead.)
IcnsPathBug(out_dir) == Join(out_dir, "kova.iconset")
IcnsPath(out_dir) == Join(out_dir, "kova.icns")

AbsentDir == [exists |-> FALSE, files |-> {}]
EmptyDir == [exists |-> TRUE, files |-> {}]

Exists(dir) == dir.exists

\* lines 101, 114: shutil.rmtree.  (Variant: only the content is removed.)
RmtreeBug(dir) == [exists |-> TRUE, files |-> {}]
Rmtree(dir) == AbsentDir

\* lines 100-101.  (Variant: a stale directory is kept.)
PreRemoveBug(dir) == dir
PreRemove(dir) == IF Exists(dir) THEN Rmtree(dir) ELSE dir

\* Image.save into a directory: a file of that name is replaced.
SaveInto(dir, name, img, run) ==
    [dir EXCEPT !.files = {f \in @ : f.name # name}
                          \cup {[name |-> name, w |-> img.size[1],
                                 h |-> img.size[2], run |-> run]}]

\* Writing a file of the output directory: a file at that path is replaced.
WriteFile(files, path, content, run) ==
    {f \in files : f.path # path}
    \cup {[path |-> path, content |-> content, run |-> run]}

Resize(img, size) == [img EXCEPT !.size = size]

Sizes == <<16, 32, 64, 128, 256, 512>>

BaseName(s) == <<"icon_", s, "x", s, ".png">>
RetinaName(s) == <<"icon_", s, "x", s, "@2x.png">>

\* line 108: s2 = s * 2.  (Variant: the @2x image is not doubled.)
DoubleBug(s) == s
Double(s) == s * 2

\* line 113: subprocess.run(..., check=True): a nonzero status raises.
\* (Variant: check=True is missing.)
CheckRaisesBug(status) == FALSE
CheckRaises(status) == status # 0

ExitCodes == {0, 1}

\* What may lie in kova.iconset before the first run.
StaleFiles ==
    { [name |-> <<"stale.png">>, w |-> 1, h |-> 1, run |-> 0],
      [name |-> BaseName(16), w |-> 1, h |-> 1, run |-> 0] }

NewImage(mode, size) == [mode |-> mode, size |-> size]

(***************************************************************************)
(* The script: __main__ and make_icns.                                     *)
(***************************************************************************)
\* line 121: icon = draw_icon()   (the image of lines 92-95)
DrawIcon ==
    /\ UNCHANGED <<fontVars, gradVars, maskVars>>
    /\ pc = "draw_icon"
    /\ icon' = NewImage("RGBA", <<SIZE, SIZE>>)
    /\ pc' = "save_preview"
    /\ UNCHANGED <<outFiles, iconset, si, toolCalls, exitStatus, stdout, returned,
                   raised, runs, prevOutcome>>

\* line 122: icon.save(out/kova_icon.png)
SavePreview ==
    /\ UNCHANGED <<fontVars, gradVars, maskVars>>
    /\ pc = "save_preview"
    /\ outFiles' = WriteFile(outFiles, Join(OutDir, "kova_icon.png"),
                             [kind |-> "png", w |-> icon.size[1],
                              h |-> icon.size[2]], runs)
    /\ pc' = "pre_remove"
    /\ UNCHANGED <<icon, iconset, si, toolCalls, exitStatus, stdout, returned, raised,
                   runs, prevOutcome>>

\* lines 99-101: remove a stale iconset
RemoveStale ==
    /\ UNCHANGED <<fontVars, gradVars, maskVars>>
    /\ pc = "pre_remove"
    /\ iconset' = PreRemove(iconset)
    /\ pc' = "makedirs"
    /\ UNCHANGED <<icon, outFiles, si, toolCalls, exitStatus, stdout, returned, raised,
                   runs, prevOutcome>>

\* line 102: os.makedirs raises FileExistsError on an existing directory
MakeDirs ==
    /\ UNCHANGED <<fontVars, gradVars, maskVars>>
    /\ pc = "makedirs"
    /\ IF Exists(iconset)
         THEN /\ raised' = "FileExistsError"
              /\ pc' = "failed"
              /\ UNCHANGED <<iconset, si>>
         ELSE /\ iconset' = EmptyDir
              /\ si' = 1
              /\ pc' = "save_base"
              /\ UNCHANGED raised
    /\ UNCHANGED <<icon, outFiles, toolCalls, exitStatus, stdout, returned, runs,
                   prevOutcome>>

\* lines 106-107
SaveBase ==
    /\ UNCHANGED <<fontVars, gradVars, maskVars>>
    /\ pc = "save_base"
    /\ LET s == Sizes[si]
       IN iconset' = SaveInto(iconset, BaseName(s),
                              Resize(icon, <<s, s>>), runs)
    /\ pc' = "save_retina"
    /\ UNCHANGED <<icon, outFiles, si, toolCalls, exitStatus, stdout, returned, raised,
                   runs, prevOutcome>>

\* lines 108-110, and the loop's step
SaveRetina ==
    /\ UNCHANGED <<fontVars, gradVars, maskVars>>
    /\ pc = "save_retina"
    /\ LET s == Sizes[si]
           s2 == Double(s)
       IN iconset' = SaveInto(iconset, RetinaName(s),
                              Resize(icon, <<s2, s2>>), runs)
    /\ IF si < Len(Sizes)
         THEN si' = si + 1 /\ pc' = "save_base"
         ELSE si' = si /\ pc' = "iconutil"
    /\ UNCHANGED <<icon, outFiles, toolCalls, exitStatus, stdout, returned, raised,
                   runs, prevOutcome>>

\* lines 112-113: iconutil compiles the iconset and exits with a status
RunIconutil ==
    /\ UNCHANGED <<fontVars, gradVars, maskVars>>
    /\ pc = "iconutil"
    /\ toolCalls' = toolCalls + 1
    /\ \E status \in ExitCodes :
         /\ exitStatus' = <<status>>
         /\ outFiles' =
              IF status = 0
                THEN WriteFile(outFiles, IcnsPath(OutDir),
                               [kind |-> "icns", of |-> iconset.files], runs)
                ELSE outFiles
         /\ IF CheckRaises(status)
              THEN raised' = "CalledProcessError" /\ pc' = "failed"
              ELSE raised' = raised /\ pc' = "rmtree"
    /\ UNCHANGED <<icon, iconset, si, stdout, returned, runs, prevOutcome>>

\* line 114
Cleanup ==
    /\ UNCHANGED <<fontVars, gradVars, maskVars>>
    /\ pc = "rmtree"
    /\ iconset' = Rmtree(iconset)
    /\ pc' = "print"
    /\ UNCHANGED <<icon, outFiles, si, toolCalls, exitStatus, stdout, returned, raised,
                   runs, prevOutcome>>

\* lines 115-116
PrintAndReturn ==
    /\ UNCHANGED <<fontVars, gradVars, maskVars>>
    /\ pc = "print"
    /\ stdout' = Append(stdout, <<"Created ", IcnsPath(OutDir)>>)
    /\ returned' = IcnsPath(OutDir)
    /\ pc' = "done"
    /\ UNCHANGED <<icon, outFiles, iconset, si, toolCalls, exitStatus, raised, runs,
                   prevOutcome>>

\* The developer runs the script again on the same directory.
RunAgain ==
    /\ UNCHANGED <<fontVars, gradVars, maskVars>>
    /\ pc \in {"done", "failed"}
    /\ runs < MaxRuns
    /\ runs' = runs + 1
    /\ prevOutcome' = IF pc = "done" THEN "ok" ELSE raised
    /\ pc' = "draw_icon"
    /\ icon' = NoImage
    /\ si' = 0
    /\ toolCalls' = 0
    /\ exitStatus' = NoStatus
    /\ stdout' = <<>>
    /\ returned' = NoPath
    /\ raised' = None
    /\ UNCHANGED <<outFiles, iconset>>

FontIdle ==
    /\ fpc = "idle" /\ ni = 0 /\ bi = 0 /\ font = [kind |-> "none"]
    /\ probed = <<>> /\ fraised = FALSE
GradIdle ==
    /\ gpc = "idle" /\ gsize = <<0, 0>> /\ gtop = <<0, 0, 0>>
    /\ gbot = <<0, 0, 0>> /\ gy = 0 /\ gimg = <<>>
MaskIdle ==
    /\ mpc = "idle" /\ mpix = <<0, 0>> /\ msrc = <<0, 0, 0>> /\ mask = 0
    /\ result = NoImage

Init ==
    /\ pc = "draw_icon"
    /\ icon = NoImage
    /\ outFiles = {}
    /\ iconset \in {AbsentDir}
                   \cup {[exists |-> TRUE, files |-> fs] :
                           fs \in SUBSET StaleFiles}
    /\ si = 0
    /\ toolCalls = 0
    /\ exitStatus = NoStatus
    /\ stdout = <<>>
    /\ returned = NoPath
    /\ raised = None
    /\ runs = 1
    /\ prevOutcome = None
    /\ FontIdle /\ GradIdle /\ MaskIdle

Next ==
    \/ DrawIcon
    \/ SavePreview
    \/ RemoveStale
    \/ MakeDirs
    \/ SaveBase
    \/ SaveRetina
    \/ RunIconutil
    \/ Cleanup
    \/ PrintAndReturn
    \/ RunAgain

Spec == Init /\ [][Next]_vars

(***************************************************************************)
(* Font probing in draw_icon (lines 49-64).  What a candidate path holds   *)
(* is the environment's answer, given when the path is probed: no file, a  *)
(* file ImageFont.truetype cannot load, or a loadable font.  probed is the *)
(* log of the paths probed, in order, with those answers.                  *)
(***************************************************************************)
FontNames == <<"SF-Mono-Bold.otf", "SFMono-Bold.otf", "Menlo-Bold.ttf",
               "Menlo.ttc">>
FontBases == << <<"System", "Library", "Fonts">>,
                <<"Library", "Fonts">>,
                <<"System", "Library", "Fonts", "Supplemental">> >>
FontStatuses == {"absent", "unloadable", "loadable"}

font_size == 420

NoFont == [kind |-> "none"]
DefaultFont == [kind |-> "default"]
TrueType(path, size) == [kind |-> "truetype", path |-> path, size |-> size]

\* line 55: os.path.exists(path)
PathExists(status) == status # "absent"

\* line 57: ImageFont.truetype(path, font_size) raises on a file it cannot load
TruetypeRaises(status) == status = "unloadable"

\* lines 59-60: except Exception: pass.  (Variant: nothing is caught.)
CaughtBug(exc) == FALSE
Caught(exc) == exc = "Exception"

\* lines 61, 63: the truth value of font.  (Variant: never true.)
TruthyBug(f) == FALSE
Truthy(f) == f # NoFont

\* lines 63-64
Fallback(f) == IF ~Truthy(f) THEN DefaultFont ELSE f

\* lines 52-60: one turn of the inner loop
ProbeCandidate ==
    /\ UNCHANGED <<pkVars, gradVars, maskVars>>
    /\ fpc = "probe"
    /\ \E status \in FontStatuses :
         LET path == Join(FontBases[bi], FontNames[ni])
             loaded == PathExists(status) /\ ~TruetypeRaises(status)
             escaped == /\ PathExists(status)
                        /\ TruetypeRaises(status)
                        /\ ~Caught("Exception")
         IN /\ probed' = Append(probed, [path |-> path, status |-> status])
            /\ font' = IF loaded THEN TrueType(path, font_size) ELSE font
            /\ fraised' = escaped
            /\ IF escaped THEN fpc' = "raised" /\ bi' = bi
               ELSE IF loaded THEN fpc' = "outer" /\ bi' = bi
               ELSE IF bi < Len(FontBases) THEN fpc' = "probe" /\ bi' = bi + 1
               ELSE fpc' = "outer" /\ bi' = bi
    /\ UNCHANGED ni

\* lines 61-62, and the outer loop's step
OuterCheck ==
    /\ UNCHANGED <<pkVars, gradVars, maskVars>>
    /\ fpc = "outer"
    /\ IF Truthy(font) \/ ni = Len(FontNames)
         THEN fpc' = "fallback" /\ UNCHANGED <<ni, bi>>
         ELSE fpc' = "probe" /\ ni' = ni + 1 /\ bi' = 1
    /\ UNCHANGED <<font, probed, fraised>>

\* lines 63-64
UseFallback ==
    /\ UNCHANGED <<pkVars, gradVars, maskVars>>
    /\ fpc = "fallback"
    /\ font' = Fallback(font)
    /\ fpc' = "resolved"
    /\ UNCHANGED <<ni, bi, probed, fraised>>

PkIdle ==
    /\ pc = "idle" /\ icon = NoImage /\ outFiles = {} /\ iconset = AbsentDir
    /\ si = 0 /\ toolCalls = 0 /\ exitStatus = NoStatus /\ stdout = <<>>
    /\ returned = NoPath /\ raised = None /\ runs = 0 /\ prevOutcome = None

\* lines 49-51: font = None, the loops at their first candidate
InitFont ==
    /\ fpc = "probe"
    /\ ni = 1
    /\ bi = 1
    /\ font = NoFont
    /\ probed = <<>>
    /\ fraised = FALSE
    /\ PkIdle /\ GradIdle /\ MaskIdle

NextFont ==
    \/ ProbeCandidate
    \/ OuterCheck
    \/ UseFallback

SpecFont == InitFont /\ [][NextFont]_vars

(***************************************************************************)
(* Python float arithmetic (lines 31-34).  y / (size[1] - 1), the product  *)
(* and the sum are IEEE binary64 operations: each result is the exact      *)
(* value rounded to MantBits significant bits, ties to even.  A value      *)
(* v >= 0 is held exactly as [int, frac]: v = int + sum of frac[i] / 2^i.  *)
(***************************************************************************)
MantBits == 53

\* the number of bits of n >= 0
BitLen(n) == IF n = 0 THEN 0 ELSE CHOOSE b \in 1..31 : 2^(b - 1) <= n /\ n < 2^b

LeadingZeros(F) ==
    IF \A i \in 1..Len(F) : F[i] = 0
      THEN Len(F)
      ELSE (CHOOSE i \in 1..Len(F) :
              F[i] = 1 /\ \A j \in 1..(i - 1) : F[j] = 0) - 1

\* v plus one unit in the last place of frac
Increment(v) ==
    LET F == v.frac
        zeros == {i \in 1..Len(F) : F[i] = 0}
    IN IF zeros = {}
         THEN [int |-> v.int + 1, frac |-> [i \in 1..Len(F) |-> 0]]
         ELSE LET p == CHOOSE i \in zeros : \A j \in zeros : j <= i
              IN [int |-> v.int,
                  frac |-> [i \in 1..Len(F) |->
                              IF i < p THEN F[i] ELSE IF i = p THEN 1 ELSE 0]]

\* round to nearest, ties to even, at MantBits significant bits
RoundToDouble(v) ==
    LET F == v.frac
        keep == IF v.int > 0 THEN MantBits - BitLen(v.int)
                ELSE LeadingZeros(F) + MantBits
    IN IF Len(F) <= keep THEN v
       ELSE LET guard == F[keep + 1]
                sticky == \E i \in (keep + 2)..Len(F) : F[i] = 1
                last == IF keep > 0 THEN F[keep] ELSE v.int % 2
                kept == [int |-> v.int, frac |-> SubSeq(F, 1, keep)]
            IN IF guard = 1 /\ (sticky \/ last = 1)
                 THEN Increment(kept)
                 ELSE kept

\* Bits are handled eight at a time.
BitsOfByte(b) ==
    <<(b \div 128) % 2, (b \div 64) % 2, (b \div 32) % 2, (b \div 16) % 2,
      (b \div 8) % 2, (b \div 4) % 2, (b \div 2) % 2, b % 2>>

ByteAt(F, j) ==
    LET o == 8 * (j - 1)
    IN 128 * F[o + 1] + 64 * F[o + 2] + 32 * F[o + 3] + 16 * F[o + 4]
       + 8 * F[o + 5] + 4 * F[o + 6] + 2 * F[o + 7] + F[o + 8]

PadToBytes(F) == F \o [i \in 1..((8 - (Len(F) % 8)) % 8) |-> 0]

RECURSIVE QuotientBits(_, _, _, _)
\* 8n more bits of the binary expansion of r / d (r < d), after acc
QuotientBits(r, d, n, acc) ==
    IF n = 0 THEN [bits |-> acc, rem |-> r]
    ELSE QuotientBits((256 * r) % d, d, n - 1,
                      acc \o BitsOfByte((256 * r) \div d))

\* the zero bits before the first one bit of y / d, 0 < y < d
ZerosBeforeFirstOne(y, d) ==
    CHOOSE z \in 0..30 : y * 2^z < d /\ y * 2^(z + 1) >= d

\* line 31: y / d for ints 0 <= y <= d, d > 0: the correctly rounded
\* quotient.  Enough bits for the rounding are computed, and a last one bit
\* stands for a nonzero remainder.
TrueDivide(y, d) ==
    IF y = 0 THEN [int |-> 0, frac |-> <<>>]
    ELSE IF y = d THEN [int |-> 1, frac |-> <<>>]
    ELSE LET need == ZerosBeforeFirstOne(y, d) + MantBits + 1
             q == QuotientBits(y, d, (need + 7) \div 8, <<>>)
         IN RoundToDouble([int |-> 0,
                           frac |-> IF q.rem = 0 THEN q.bits
                                    ELSE Append(q.bits, 1)])

RECURSIVE TimesBits(_, _, _, _, _)
\* k * 0.F, from the last byte j of F to the first, with the carry c
TimesBits(F, k, j, c, acc) ==
    IF j = 0 THEN [carry |-> c, frac |-> acc]
    ELSE LET digit == ByteAt(F, j) * k + c
         IN TimesBits(F, k, j - 1, digit \div 256,
                      BitsOfByte(digit % 256) \o acc)

\* float(k) * v for an int k >= 0
FloatMul(k, v) ==
    LET F == PadToBytes(v.frac)
        p == TimesBits(F, k, Len(F) \div 8, 0, <<>>)
    IN RoundToDouble([int |-> v.int * k + p.carry, frac |-> p.frac])

\* float(a) + v for an int a >= 0
FloatAdd(a, v) == RoundToDouble([int |-> a + v.int, frac |-> v.frac])

\* float(a) - v for an int a >= v
FloatSub(a, v) ==
    IF \A i \in 1..Len(v.frac) : v.frac[i] = 0
      THEN RoundToDouble([int |-> a - v.int, frac |-> v.frac])
      ELSE LET inverted == [i \in 1..Len(v.frac) |-> 1 - v.frac[i]]
               compl == Increment([int |-> 0, frac |-> inverted])
           IN RoundToDouble([int |-> a - v.int - 1, frac |-> compl.frac])

\* int(v): truncation toward zero
ToInt(v) == v.int

(***************************************************************************)
(* gradient_bg (lines 28-37).                                              *)
(***************************************************************************)
MaxW == 2
MaxH == 23

Colours == {BG_TOP, BG_BOT, <<0, 22, 25>>, <<22, 0, 0>>}

\* line 31: the divisor of t.  (Variant: the height itself.)
LastRowBug(H) == H
LastRow(H) == H - 1

\* lines 32-34: int(top[c] + (bot[c] - top[c]) * t), for one channel
Channel(top, bot, t) ==
    IF bot >= top
      THEN ToInt(FloatAdd(top, FloatMul(bot - top, t)))
      ELSE ToInt(FloatSub(top, FloatMul(top - bot, t)))

\* line 29: Image.new("RGB", size) is black
BlankImage(size) ==
    [y \in 0..(size[2] - 1) |-> [x \in 0..(size[1] - 1) |-> <<0, 0, 0>>]]

\* lines 30-36: one turn of the loop over the rows
GradientRow ==
    /\ UNCHANGED <<pkVars, fontVars, maskVars>>
    /\ gpc = "rows"
    /\ gy < gsize[2]
    /\ IF LastRow(gsize[2]) = 0
         THEN /\ gpc' = "ZeroDivisionError"
              /\ UNCHANGED <<gy, gimg>>
         ELSE LET t == TrueDivide(gy, LastRow(gsize[2]))
                  r == Channel(gtop[1], gbot[1], t)
                  g == Channel(gtop[2], gbot[2], t)
                  b == Channel(gtop[3], gbot[3], t)
              IN /\ gimg' = [gimg EXCEPT ![gy] =
                               [x \in 0..(gsize[1] - 1) |-> <<r, g, b>>]]
                 /\ gy' = gy + 1
                 /\ gpc' = gpc
    /\ UNCHANGED <<gsize, gtop, gbot>>

\* line 37
GradientReturn ==
    /\ UNCHANGED <<pkVars, fontVars, maskVars>>
    /\ gpc = "rows"
    /\ gy = gsize[2]
    /\ gpc' = "returned"
    /\ UNCHANGED <<gsize, gtop, gbot, gy, gimg>>

InitGradient ==
    /\ gsize \in (1..MaxW) \X (1..MaxH)
    /\ gtop \in Colours
    /\ gbot \in Colours
    /\ gy = 0
    /\ gimg = BlankImage(gsize)
    /\ gpc = "rows"
    /\ PkIdle /\ FontIdle /\ MaskIdle

NextGradient ==
    \/ GradientRow
    \/ GradientReturn

SpecGradient == InitGradient /\ [][NextGradient]_vars

(***************************************************************************)
(* rounded_rect_mask (lines 18-25) and the paste of draw_icon (lines       *)
(* 89-95).  The images have a million pixels and more; the model follows   *)
(* one pixel of the result, mpix, through the mask and the paste.          *)
(***************************************************************************)
scale == 4

\* lines 21-24: the mask at 4x, 255 inside the rounded rectangle
\* [0, 0, w - 1, h - 1] of corner radius r and 0 outside.  The corners are
\* quarter discs of radius r centred r from the two nearest sides.
BigPixel(X, Y, w, h, r) ==
    LET dx == IF X <= (w - 1) - X THEN X ELSE (w - 1) - X
        dy == IF Y <= (h - 1) - Y THEN Y ELSE (h - 1) - Y
    IN IF dx >= r \/ dy >= r THEN 255
       ELSE IF (r - dx) * (r - dx) + (r - dy) * (r - dy) <= r * r THEN 255
       ELSE 0

\* line 25: Image.LANCZOS, a 4:1 reduction.  Each output sample is a
\* weighted sum of the 24 input samples around it (fewer at the image's
\* border), computed in 22-bit fixed point, rows first and then columns,
\* and clipped to 0..255.  The weights are those of the Lanczos window of
\* support 3 stretched by the reduction factor, normalised to sum to one.
PRECISION_BITS == 22

LanczosEdge0 ==
    <<859333, 1092664, 1092664, 859333, 492121, 135537, -95481, -165595,
      -118562, -34373, 22980, 34080, 17537, 2066>>

LanczosEdge1 ==
    <<-152285, -87807, 124644, 452566, 790264, 1004841, 1004841, 790264,
      452566, 124644, -87807, -152285, -109033, -31611, 21133, 31341,
      16128, 1900>>

LanczosEdge2 ==
    <<32014, 21587, -32289, -111374, -155555, -89693, 127320, 462284,
      807233, 1026417, 1026417, 807233, 462284, 127320, -89693, -155555,
      -111374, -32289, 21587, 32014, 16474, 1940>>

LanczosInner ==
    <<1932, 16402, 31874, 21493, -32148, -110887, -154875, -89301,
      126764, 460263, 803705, 1021931, 1021931, 803705, 460263, 126764,
      -89301, -154875, -110887, -32148, 21493, 31874, 16402, 1932>>

Reverse(s) == [i \in 1..Len(s) |-> s[Len(s) + 1 - i]]

\* the first input sample and the weights of output sample xx of outSize
Kernel(xx, outSize) ==
    IF xx = 0 THEN [xmin |-> 0, k |-> LanczosEdge0]
    ELSE IF xx = 1 THEN [xmin |-> 0, k |-> LanczosEdge1]
    ELSE IF xx = 2 THEN [xmin |-> 0, k |-> LanczosEdge2]
    ELSE IF xx = outSize - 1
      THEN [xmin |-> scale * xx - 10, k |-> Reverse(LanczosEdge0)]
    ELSE IF xx = outSize - 2
      THEN [xmin |-> scale * xx - 10, k |-> Reverse(LanczosEdge1)]
    ELSE IF xx = outSize - 3
      THEN [xmin |-> scale * xx - 10, k |-> Reverse(LanczosEdge2)]
    ELSE [xmin |-> scale * xx - 10, k |-> LanczosInner]

RECURSIVE SumRange(_, _, _)
SumRange(f, lo, hi) ==
    IF lo > hi THEN 0
    ELSE IF lo = hi THEN f[lo]
    ELSE LET mid == (lo + hi) \div 2
         IN SumRange(f, lo, mid) + SumRange(f, mid + 1, hi)

Clip8(v) == IF v < 0 THEN 0 ELSE IF v > 255 THEN 255 ELSE v

\* one output sample: the weights k applied to the input samples
Convolve(k, samples) ==
    LET terms == [i \in 1..Len(k) |-> k[i] * samples[i]]
    IN Clip8((2^(PRECISION_BITS - 1) + SumRange(terms, 1, Len(k)))
             \div 2^PRECISION_BITS)

\* line 24: the radius at 4x.  (Variant: the radius is not scaled.)
MaskRadiusBug(radius) == radius
MaskRadius(radius) == radius * scale

\* lines 18-25: the mask's value at pixel (x, y)
rounded_rect_mask(size, radius, x, y) ==
    LET w == size[1] * scale
        h == size[2] * scale
        r == MaskRadius(radius)
        kx == Kernel(x, size[1])
        ky == Kernel(y, size[2])
        row(Y) == Convolve(kx.k, [i \in 1..Len(kx.k) |->
                                    BigPixel(kx.xmin + i - 1, Y, w, h, r)])
    IN Convolve(ky.k, [j \in 1..Len(ky.k) |-> row(ky.xmin + j - 1)])

\* line 93: paste through the mask blends each channel of the pasted
\* pixel with the pixel below it
Blend(m, below, pasted) ==
    LET tmp == m * pasted + (255 - m) * below + 128
    IN ((tmp \div 256) + tmp) \div 256

\* The pixels followed, in both coordinates.
ProbeCoords ==
    {0, 1, 2, 3, 20, 46, 58, 64, 65, 68, 82, 100, 150, 187, 198, 219, 220,
     221, 512, 803, 941, 959, 1020, 1021, 1022, 1023}

\* Colours the drawing of lines 41-87 leaves in img (mode RGB).
PROMPT_COLOR == <<0, 230, 160>>
DrawnColours == {BG_TOP, PROMPT_COLOR}

\* line 90: mask = rounded_rect_mask((SIZE, SIZE), CORNER_R)
MakeMask ==
    /\ UNCHANGED <<pkVars, fontVars, gradVars>>
    /\ mpc = "mask"
    /\ mask' = rounded_rect_mask(<<SIZE, SIZE>>, CORNER_R, mpix[1], mpix[2])
    /\ mpc' = "new"
    /\ UNCHANGED <<mpix, msrc, result>>

\* line 92: result = Image.new("RGBA", (SIZE, SIZE), (0, 0, 0, 0))
NewResult ==
    /\ UNCHANGED <<pkVars, fontVars, gradVars>>
    /\ mpc = "new"
    /\ result' = [mode |-> "RGBA", size |-> <<SIZE, SIZE>>,
                  pixel |-> <<0, 0, 0, 0>>]
    /\ mpc' = "paste"
    /\ UNCHANGED <<mpix, msrc, mask>>

\* lines 93-95: result.paste(img, mask=mask); img, of mode RGB, is pasted
\* opaque
Paste ==
    /\ UNCHANGED <<pkVars, fontVars, gradVars>>
    /\ mpc = "paste"
    /\ LET pasted == msrc \o <<255>>
       IN result' = [result EXCEPT !.pixel =
                       [c \in 1..4 |-> Blend(mask, @[c], pasted[c])]]
    /\ mpc' = "returned"
    /\ UNCHANGED <<mpix, msrc, mask>>

InitMask ==
    /\ mpix \in ProbeCoords \X ProbeCoords
    /\ msrc \in DrawnColours
    /\ mask = 0
    /\ result = NoImage
    /\ mpc = "mask"
    /\ PkIdle /\ FontIdle /\ GradIdle

NextMask ==
    \/ MakeMask
    \/ NewResult
    \/ Paste

SpecMask == InitMask /\ [][NextMask]_vars

(***************************************************************************)
(* Claims about make_icns and the script, checked under Spec.              *)
(***************************************************************************)
ClaimSizes == {16, 32, 64, 128, 256, 512}

\* The twelve PNGs the icon compiler expects: name, width, height.
ExpectedPngs ==
    { << <<"icon_", s, "x", s, ".png">>, s, s >> : s \in ClaimSizes }
    \cup { << <<"icon_", s, "x", s, "@2x.png">>, 2 * s, 2 * s >> :
             s \in ClaimSizes }

PngsOf(dir) == { <<f.name, f.w, f.h>> : f \in dir.files }

\* C1: at the moment iconutil is invoked, kova.iconset holds exactly the 12
\* PNGs icon_{s}x{s}.png (s x s) and icon_{s}x{s}@2x.png (2s x 2s) for s in
\* 16, 32, 64, 128, 256, 512, and no other file.
C1_IconsetAtInvocation ==
    pc = "iconutil" =>
        /\ Exists(iconset)
        /\ Cardinality(iconset.files) = 12
        /\ PngsOf(iconset) = ExpectedPngs

C1_Witness ==
    /\ pc = "iconutil"
    /\ toolCalls = 0
    /\ Cardinality(iconset.files) = 12

\* C2: whatever earlier runs left behind (nothing after a success, the
\* iconset after a tool failure, or a stale directory), a run never fails on
\* the scratch directory's state, the directory is empty when the first PNG
\* is written, and every file in it at the tool's invocation was written by
\* the current run.
C2_NoLeftoverState ==
    /\ raised # "FileExistsError"
    /\ (pc = "save_base" /\ si = 1) => iconset = EmptyDir
    /\ pc = "iconutil" => \A f \in iconset.files : f.run = runs

C2_Witness ==
    /\ runs > 1
    /\ prevOutcome = "CalledProcessError"
    /\ pc = "iconutil"

\* C3: when make_icns returns after iconutil exited with status zero,
\* kova.iconset no longer exists and holds no file.
C3_RemovedAfterSuccess ==
    (pc = "done" /\ exitStatus = <<0>>) =>
        /\ ~Exists(iconset)
        /\ iconset.files = {}

C3_Witness ==
    /\ pc = "done"
    /\ exitStatus = <<0>>
    /\ toolCalls = 1

\* C4: in every terminal state of a run, normal return or abort on a nonzero
\* exit status, kova.iconset is absent.
C4_AbsentAtEveryEnd ==
    pc \in {"done", "failed"} => ~Exists(iconset)

\* The state part of C5: in one run iconutil is invoked at most once, and
\* exactly once in a run that reached its end; a nonzero exit status ends
\* the run with CalledProcessError, nothing printed, nothing returned and no
\* second invocation.
C5_Invariant ==
    /\ toolCalls <= 1
    /\ pc \in {"done", "failed"} => toolCalls = 1
    /\ toolCalls = 1 => exitStatus # NoStatus
    /\ (exitStatus # NoStatus /\ exitStatus # <<0>>) =>
          /\ pc = "failed"
          /\ raised = "CalledProcessError"
          /\ stdout = <<>>
          /\ returned = NoPath
          /\ toolCalls = 1

\* C5, with the order of the steps: the invariant above holds throughout,
\* and iconutil is invoked only from a state with no earlier invocation in
\* the run and the 12 PNGs written.
C5_OnceAfterPngsNoRetry ==
    /\ []C5_Invariant
    /\ [][toolCalls' > toolCalls =>
            /\ toolCalls = 0
            /\ Cardinality(iconset.files) = 12
            /\ PngsOf(iconset) = ExpectedPngs]_vars

C5_Witness ==
    /\ pc = "failed"
    /\ exitStatus = <<1>>
    /\ toolCalls = 1

\* C7: a run that completes has written, in the script's directory, the
\* preview kova_icon.png of SIZE x SIZE pixels and the container kova.icns,
\* and make_icns has returned out_dir/kova.icns.
C7_TwoFilesAndPath ==
    pc = "done" =>
        /\ \E f \in outFiles :
              /\ f.path = <<"assets", "kova_icon.png">>
              /\ f.run = runs
              /\ f.content = [kind |-> "png", w |-> 1024, h |-> 1024]
        /\ \E f \in outFiles :
              /\ f.path = <<"assets", "kova.icns">>
              /\ f.run = runs
              /\ f.content.kind = "icns"
        /\ returned = <<"assets", "kova.icns">>
        /\ stdout = << <<"Created ", <<"assets", "kova.icns">> >> >>

C7_Witness ==
    /\ pc = "done"
    /\ runs > 1
    /\ returned = <<"assets", "kova.icns">>

(***************************************************************************)
(* Claims about font resolution, checked under SpecFont.                   *)
(***************************************************************************)
\* The scan order of the claim: font name outer, search directory inner.
ScanOrder ==
    LET names == <<"SF-Mono-Bold.otf", "SFMono-Bold.otf", "Menlo-Bold.ttf",
                   "Menlo.ttc">>
        dirs == << <<"System", "Library", "Fonts">>,
                   <<"Library", "Fonts">>,
                   <<"System", "Library", "Fonts", "Supplemental">> >>
    IN [k \in 1..12 |->
          Append(dirs[((k - 1) % 3) + 1], names[((k - 1) \div 3) + 1])]

NoneLoadable == \A k \in 1..Len(probed) : probed[k].status # "loadable"

\* C6: font resolution never raises: whatever each candidate holds, no
\* exception leaves the probing step, the step can always go on until the
\* font is resolved, the resolved font is usable, and it is the built-in
\* default when no candidate exists or every existing one fails to load.
C6_NeverRaises ==
    /\ ~fraised
    /\ fpc \in {"probe", "outer", "fallback", "resolved"}
    /\ fpc # "resolved" => ENABLED NextFont
    /\ fpc = "resolved" =>
          /\ font.kind \in {"truetype", "default"}
          /\ NoneLoadable => font = [kind |-> "default"]

C6_Witness ==
    /\ fpc = "resolved"
    /\ font = [kind |-> "default"]
    /\ Len(probed) = 12
    /\ \E k \in 1..12 : probed[k].status = "unloadable"
    /\ \E k \in 1..12 : probed[k].status = "absent"

\* C9: candidates are probed in scan order; the first one that exists and
\* loads is selected and nothing is probed after it; one that exists but
\* fails to load does not stop the scan, which goes through all twelve
\* candidates when none loads.
C9_FirstLoadableWins ==
    /\ Len(probed) <= 12
    /\ \A k \in 1..Len(probed) : probed[k].path = ScanOrder[k]
    /\ \A k \in 1..(Len(probed) - 1) : probed[k].status # "loadable"
    /\ fpc = "resolved" =>
          IF NoneLoadable
            THEN Len(probed) = 12 /\ font.kind = "default"
            ELSE /\ font.kind = "truetype"
                 /\ font.path = probed[Len(probed)].path
                 /\ probed[Len(probed)].status = "loadable"

C9_Witness ==
    /\ fpc = "resolved"
    /\ Len(probed) = 8
    /\ probed[7].status = "unloadable"
    /\ probed[8].status = "loadable"
    /\ font.kind = "truetype"
    /\ font.path = <<"Library", "Fonts", "Menlo-Bold.ttf">>

(***************************************************************************)
(* Claims about gradient_bg, checked under SpecGradient.                   *)
(***************************************************************************)
\* top + (bot - top) * y / (H - 1) in exact arithmetic, truncated
ExactTruncated(top, bot, y, H) ==
    (top * (H - 1) + (bot - top) * y) \div (H - 1)

Between(v, a, b) == (a <= v /\ v <= b) \/ (b <= v /\ v <= a)

\* What C10 states apart from the exact value of each channel.
GradientShape ==
    LET W == gsize[1]
        H == gsize[2]
    IN /\ \A y \in 0..(H - 1) : \A x \in 0..(W - 1) : gimg[y][x] = gimg[y][0]
       /\ gimg[0][0] = gtop
       /\ gimg[H - 1][0] = gbot
       /\ \A y \in 0..(H - 1) : \A c \in 1..3 :
             Between(gimg[y][0][c], gtop[c], gbot[c])
       /\ \A y \in 1..(H - 1) : \A c \in 1..3 :
             IF gbot[c] >= gtop[c]
               THEN gimg[y - 1][0][c] <= gimg[y][0][c]
               ELSE gimg[y - 1][0][c] >= gimg[y][0][c]

\* C10 as stated: for H >= 2 every row is one colour, row 0 is top, row H-1
\* is bot, every channel of every row equals the exact linear interpolation
\* truncated to an integer, stays between top and bot and is monotone.
C10_ExactInterpolation ==
    (gpc = "returned" /\ gsize[2] >= 2) =>
        /\ GradientShape
        /\ \A y \in 0..(gsize[2] - 1) : \A c \in 1..3 :
              gimg[y][0][c] = ExactTruncated(gtop[c], gbot[c], y, gsize[2])

\* C10 as amended: the same, except that a channel is the truncated exact
\* interpolation or one less than it (the float product or sum can fall
\* just short of an integer the exact value reaches).
C10_InterpolationWithinOne ==
    (gpc = "returned" /\ gsize[2] >= 2) =>
        /\ GradientShape
        /\ \A y \in 0..(gsize[2] - 1) : \A c \in 1..3 :
              LET e == ExactTruncated(gtop[c], gbot[c], y, gsize[2])
              IN gimg[y][0][c] \in {e - 1, e}

C10_Witness ==
    /\ gpc = "returned"
    /\ gsize = <<2, 23>>
    /\ gtop = <<0, 22, 25>>
    /\ gbot = <<22, 0, 0>>
    /\ gimg[15][1][1] = 14
    /\ gimg[22][1] = <<22, 0, 0>>

(***************************************************************************)
(* Claims about the mask and the result, checked under SpecMask.           *)
(***************************************************************************)
\* The distance of a pixel's coordinate from the nearer side of the image.
FromSide(c) == IF c <= 1023 - c THEN c ELSE 1023 - c

\* The pixel, grown by margin pixels on every side, lies strictly outside
\* the rounded rectangle of radius 220: beyond the arc of its corner.
OutsideBy(p, margin) ==
    LET ix == FromSide(p[1]) + 1 + margin
        iy == FromSide(p[2]) + 1 + margin
    IN /\ ix <= 220
       /\ iy <= 220
       /\ (220 - ix) * (220 - ix) + (220 - iy) * (220 - iy) > 220 * 220

ResultIsRGBA ==
    /\ result.mode = "RGBA"
    /\ result.size = <<1024, 1024>>

====
